---- MODULE Spec2Model ----
(***************************************************************************)
(* Greedy approximation via energy increment (energy_increment.ipynb).     *)
(*                                                                         *)
(* The model follows the three functions that drive the decomposition:     *)
(*   vec_finder            one sampled batch per (recursive) call          *)
(*   add_vector            rank test of the extended Gram matrix, append,  *)
(*                         projection                                      *)
(*   greedy_approximation  the outer while loop                            *)
(*                                                                         *)
(* Floating point quantities are scaled integers.  Directions on the       *)
(* sphere are the points of a small grid; the value of a polynomial at a   *)
(* direction and the Lr-norm of a residual are numbers the input           *)
(* polynomial decides, so they are drawn from small sets.  A projection    *)
(* polynomial is the list of rank-one terms it is the combination of,      *)
(* together with the Lr-norm of poly minus that polynomial.  A stored      *)
(* evaluation fv is kept as what it is the value of: the direction and the *)
(* terms of the projection that was subtracted from poly.                  *)
(***************************************************************************)
EXTENDS Integers, Sequences, FiniteSets, TLC

\* ---------------------------------------------------------------- bounds
MaxErr == 2        \* Lr-norms range over 0..MaxErr
MaxMaxIter == 3    \* max_iter is 1 or MaxMaxIter
NumDirs == 4       \* number of grid directions
MaxDepth == 1      \* nesting of add_vector calls the interpreter allows

\* ------------------------------------------------------- program values
\* vec_finder: max_tries = 10
max_tries == 10

\* np.inf, larger than every norm and than every norm plus tolerance
Inf == MaxErr + 2

\* the value of a call that falls off the end of a Python function
None == [none |-> TRUE]

\* the sets the arguments are drawn from
Ns == {0, 1, 2}
Degs == {2}
Epss == {1}
Tols == {0, 1}
\* max_size = min(sample_size(n, deg, r, accu), 100000), at least 1
Sizes == {2}
Errs == 0..MaxErr
\* values of a polynomial at a direction; only their absolute value is used
Vals == {0 - 1, 0}
Dirs == 0..(NumDirs - 1)
\* inner, in thousandths; 0 is outside the documented range (0, 1)
Inners == {0, 600, 999}

Abs(x) == IF x < 0 THEN 0 - x ELSE x

\* The bookkeeping counters commits and rejects stop counting here; no run of
\* the program gets there (see TypeOK).
CounterCap == NumDirs + MaxMaxIter

Count(c) == IF c < CounterCap THEN c + 1 ELSE c

RECURSIVE Factorial(_)
Factorial(k) == IF k <= 0 THEN 1 ELSE k * Factorial(k - 1)

\* math.comb
comb(a, b) == IF b > a THEN 0 ELSE Factorial(a) \div (Factorial(b) * Factorial(a - b))

\* W[:-1]
DropLast(s) == IF Len(s) = 0 THEN s ELSE SubSeq(s, 1, Len(s) - 1)

VARIABLES
    n, deg, eps, tol, max_iter, inner, max_size,  \* arguments and derived sizes
    pc,               \* where the run is
    W, fW, Q,         \* the basis lists
    error, old_error, \* greedy_approximation locals
    projection_poly,
    iteration,
    tries,            \* tries of the running vec_finder frame
    depth,            \* number of add_vector frames below the running one
    found,            \* what vec_finder handed to add_vector, with the
                      \* |value| at v and the largest |value| of its batch
    ret,              \* what add_vector handed to greedy_approximation
    result,           \* what greedy_approximation returned
    batches, fails,   \* batches sampled / failed by the running vec_finder call
    commits, rejects  \* loop iterations committed, rejected

vars == <<n, deg, eps, tol, max_iter, inner, max_size, pc, W, fW, Q, error,
          old_error, projection_poly, iteration, tries, depth, found, ret,
          result, batches, fails, commits, rejects>>

args == <<n, deg, eps, tol, max_iter, inner, max_size>>

\* ------------------------------------------------------------ geometry
\* Two distinct grid directions that are numerically parallel: their inner
\* product is below 1 but (w_i . w_j)^deg is within the tolerance
\* np.linalg.matrix_rank uses to count singular values.
NearParallel(u, v) == u # v /\ u % 3 = v % 3

\* Two grid directions at a small angle: linearly independent, but closer
\* than a moderate inner allows.
Close(u, v) == {u, v} = {1, 2}

\* |u . v| in thousandths.  On the 0-sphere (n = 1) every direction is +1 or -1.
AbsInner(u, v) ==
    IF n = 1 \/ u = v THEN 1000
    ELSE IF NearParallel(u, v) THEN 998
    ELSE IF Close(u, v) THEN 800
    ELSE 500

\* np.max(inner_product, axis = 1) for the candidate v
MaxAbsInner(v, basis) ==
    CHOOSE m \in {AbsInner(v, basis[i]) : i \in 1..Len(basis)} :
        \A i \in 1..Len(basis) : AbsInner(v, basis[i]) <= m

\* V[np.max(inner_product, axis = 1) < inner, :]  (only when W != [])
Survives(v, basis, thr) == MaxAbsInner(v, basis) < thr

\* vec_finder without the filter
DiversityFilterOff(V, basis, thr) == V

DiversityFilter(V, basis, thr) ==
    IF basis = <<>> THEN V
    ELSE {v \in V : Survives(v, basis, thr)}

\* rank != len(matrix) for matrix = (new_W new_W^T)^deg
Singular(new_W) ==
    \E i, j \in 1..Len(new_W) :
        i < j /\ (n = 1 \/ new_W[i] = new_W[j] \/ NearParallel(new_W[i], new_W[j]))

\* ----------------------------------------------------------- vec_finder
\* sample_spherical(n, max_size): the batches, each as the set of its
\* directions (the rows come in any order)
Batches(size) == {S \in SUBSET Dirs : S # {} /\ Cardinality(S) <= size}

\* max_position as any row of the batch
ArgAny(fV, cands) == cands

\* np.argmax(abs_fV) is the first row holding the largest absolute value:
\* any of the candidates holding it, depending on the order of the rows
ArgMax(fV, cands) ==
    {v \in cands : \A u \in cands : Abs(fV[u]) <= Abs(fV[v])}

\* np.max(abs_fV)
MaxAbs(fV, cands) ==
    CHOOSE m \in {Abs(fV[u]) : u \in cands} : \A u \in cands : Abs(fV[u]) <= m

\* 0.5*lrnorm <= abs_fv
HalfNormTest(lrnorm, abs_fv) == lrnorm <= 2 * abs_fv

\* the retry test one short: tries < max_tries
RetryAllowedOneShort(t) == t < max_tries

\* tries <= max_tries, after tries += 1
RetryAllowed(t) == t <= max_tries

\* poly_diff.Lr_norm(X, WX, r) for poly_diff = poly - p
ResidualNorm(p) == p.resid

\* ----------------------------------------------------- greedy_approximation
\* abs(old_error - error); np.inf minus a finite number is np.inf
Difference(old, new) == IF old = Inf THEN Inf ELSE Abs(old - new)

\* difference <= tol
Stagnated(difference) == difference <= tol

\* while error >= eps
LoopCondition == error >= eps

\* the stagnation test as iteration > max_iter
IterationLimitStrict(it) == it > max_iter

\* iteration >= max_iter, after iteration += 1
IterationLimit(it) == it >= max_iter

\* len(W) >= max_vec
max_vec == comb(n + deg - 1, deg)

\* the basis test as len(W) > max_vec
BasisFullStrict(basis) == Len(basis) > max_vec

BasisFull(basis) == Len(basis) >= max_vec

\* sustract_polynomials(poly, poly): no terms; its residual is poly itself
ZeroPolynomial(norm) == [terms |-> <<>>, resid |-> norm]

Terminal == {"CONVERGED", "STAGNANT_STOP", "BASIS_FULL"}
Failed == {"INVALID_INPUT", "SEARCH_EXHAUSTED", "TYPE_ERROR", "VALUE_ERROR",
           "RECURSION_ERROR"}

\* Loop iterations started: those that ended in the commit or in the reject
\* branch, and the one that is running or was cut short by an exception.
iters ==
    commits + rejects +
    (IF pc \in {"vec_finder", "add_vector", "returned", "SEARCH_EXHAUSTED",
                "TYPE_ERROR", "VALUE_ERROR", "RECURSION_ERROR"}
     THEN 1 ELSE 0)

Init ==
    /\ n \in Ns
    /\ deg \in Degs
    /\ eps \in Epss
    /\ tol \in Tols
    /\ max_iter \in {1, MaxMaxIter}
    /\ inner \in Inners
    /\ max_size \in Sizes
    /\ pc = "INIT"
    /\ W = <<>> /\ fW = <<>> /\ Q = <<>>
    /\ error = Inf /\ old_error = Inf
    /\ \E norm \in Errs : projection_poly = ZeroPolynomial(norm)
    /\ iteration = 1
    /\ tries = 1 /\ depth = 0
    /\ found = None /\ ret = None /\ result = None
    /\ batches = 0 /\ fails = 0
    /\ commits = 0 /\ rejects = 0

\* greedy_approximation up to the loop: spherical_quadrature raises for n < 1
Setup ==
    /\ pc = "INIT"
    /\ pc' = IF n < 1 THEN "INVALID_INPUT" ELSE "loop"
    /\ UNCHANGED <<args, W, fW, Q, error, old_error, projection_poly, iteration,
                   tries, depth, found, ret, result, batches, fails, commits,
                   rejects>>

\* while error >= eps: old_error = error; call add_vector, which calls vec_finder
LoopTest ==
    /\ pc = "loop"
    /\ IF LoopCondition
       THEN /\ old_error' = error
            /\ pc' = "vec_finder"
            /\ tries' = 1 /\ depth' = 0
            /\ batches' = 0 /\ fails' = 0
            /\ found' = None /\ ret' = None
            /\ UNCHANGED result
       ELSE /\ pc' = "CONVERGED"
            /\ result' = projection_poly
            /\ UNCHANGED <<old_error, tries, depth, batches, fails, found, ret>>
    /\ UNCHANGED <<args, W, fW, Q, error, projection_poly, iteration, commits, rejects>>

\* One vec_finder frame: sample, filter, evaluate, test.
\* A frame with tries > 1 was called by a frame that drops the value it gets
\* back, so the outermost frame then returns None.
VecFinderAttempt ==
    /\ pc = "vec_finder"
    /\ \E V \in Batches(max_size) :
        LET Vf == DiversityFilter(V, W, inner)
            lrnorm == ResidualNorm(projection_poly)
        IN  /\ IF Vf = {}
               THEN \* np.argmax of an empty array
                    /\ pc' = "VALUE_ERROR"
                    /\ batches' = batches + 1
                    /\ UNCHANGED <<tries, found, fails>>
               ELSE \E fV \in [Vf -> Vals] : \E v \in ArgMax(fV, Vf) :
                    LET fv == [at |-> v, minus |-> projection_poly.terms]
                        abs_fv == MaxAbs(fV, Vf)
                    IN  IF HalfNormTest(lrnorm, abs_fv)
                        THEN /\ found' = IF tries = 1
                                         THEN [v |-> v, fv |-> fv, q |-> v,
                                               lrnorm |-> lrnorm,
                                               abs_at_v |-> Abs(fV[v]),
                                               abs_fv |-> abs_fv]
                                         ELSE None
                             /\ pc' = "add_vector"
                             /\ tries' = 1 /\ batches' = 0 /\ fails' = 0
                        ELSE /\ tries' = tries + 1
                             /\ batches' = batches + 1
                             /\ fails' = fails + 1
                             /\ pc' = IF RetryAllowed(tries + 1)
                                      THEN "vec_finder"
                                      ELSE "SEARCH_EXHAUSTED"
                             /\ UNCHANGED found
    /\ UNCHANGED <<args, W, fW, Q, error, old_error, projection_poly, iteration,
                   depth, ret, result, commits, rejects>>

\* add_vector after its vec_finder call came back with None: the unpacking
\* v, fv, q, lrnorm = ... raises TypeError
AddVectorUnpackFails ==
    /\ pc = "add_vector"
    /\ found = None
    /\ pc' = "TYPE_ERROR"
    /\ UNCHANGED <<args, W, fW, Q, error, old_error, projection_poly, iteration,
                   tries, depth, found, ret, result, batches, fails, commits,
                   rejects>>

\* add_vector, singular branch: call add_vector again and drop what it returns
AddVectorSingular ==
    /\ pc = "add_vector"
    /\ found # None
    /\ Singular(Append(W, found.v))
    /\ depth' = depth + 1
    /\ IF depth + 1 > MaxDepth
       THEN /\ pc' = "RECURSION_ERROR"
            /\ UNCHANGED <<tries, batches, fails, found>>
       ELSE /\ pc' = "vec_finder"
            /\ tries' = 1 /\ batches' = 0 /\ fails' = 0
            /\ found' = None
    /\ UNCHANGED <<args, W, fW, Q, error, old_error, projection_poly, iteration,
                   ret, result, commits, rejects>>

\* add_vector appending before the rank test (the W.append(v) left as a comment
\* above the test), whatever the rank
AddVectorAppendUntested ==
    /\ pc = "add_vector"
    /\ found # None
    /\ W' = Append(W, found.v)
    /\ fW' = Append(fW, found.fv)
    /\ Q' = Append(Q, found.q)
    /\ \E e \in Errs :
        LET new_projection == [terms |-> Append(Q, found.q), resid |-> e]
        IN  ret' = IF depth = 0
                   THEN [error |-> found.lrnorm, projection_poly |-> new_projection]
                   ELSE None
    /\ pc' = "returned"
    /\ UNCHANGED <<args, error, old_error, projection_poly, iteration, tries,
                   depth, found, result, batches, fails, commits, rejects>>

\* add_vector, regular branch: append in place, solve, build the projection.
\* A nested frame returns to a frame that returns nothing.
AddVectorAppend ==
    /\ pc = "add_vector"
    /\ found # None
    /\ ~Singular(Append(W, found.v))
    /\ W' = Append(W, found.v)
    /\ fW' = Append(fW, found.fv)
    /\ Q' = Append(Q, found.q)
    /\ \E e \in Errs :
        LET new_projection == [terms |-> Append(Q, found.q), resid |-> e]
        IN  ret' = IF depth = 0
                   THEN [error |-> found.lrnorm, projection_poly |-> new_projection]
                   ELSE None
    /\ pc' = "returned"
    /\ UNCHANGED <<args, error, old_error, projection_poly, iteration, tries,
                   depth, found, result, batches, fails, commits, rejects>>

\* greedy_approximation unpacking None
GreedyUnpackFails ==
    /\ pc = "returned"
    /\ ret = None
    /\ pc' = "TYPE_ERROR"
    /\ UNCHANGED <<args, W, fW, Q, error, old_error, projection_poly, iteration,
                   tries, depth, found, ret, result, batches, fails, commits,
                   rejects>>

\* the rejecting branch without iteration += 1
RejectWithoutCount ==
    /\ pc = "returned"
    /\ ret # None
    /\ Stagnated(Difference(old_error, ret.error))
    /\ projection_poly' = ret.projection_poly
    /\ error' = old_error
    /\ W' = DropLast(W)
    /\ fW' = DropLast(fW)
    /\ Q' = DropLast(Q)
    /\ IF IterationLimit(iteration)
       THEN pc' = "STAGNANT_STOP" /\ result' = ret.projection_poly
       ELSE IF BasisFull(DropLast(W))
       THEN pc' = "BASIS_FULL" /\ result' = ret.projection_poly
       ELSE pc' = "loop" /\ UNCHANGED result
    /\ UNCHANGED <<args, old_error, iteration, tries, depth, found, ret, batches,
                   fails, commits, rejects>>

\* loop body after add_vector, branch difference <= tol
Reject ==
    /\ pc = "returned"
    /\ ret # None
    /\ Stagnated(Difference(old_error, ret.error))
    /\ projection_poly' = ret.projection_poly
    /\ error' = old_error
    /\ W' = DropLast(W)
    /\ fW' = DropLast(fW)
    /\ Q' = DropLast(Q)
    /\ iteration' = iteration + 1
    /\ rejects' = Count(rejects)
    /\ IF IterationLimit(iteration + 1)
       THEN pc' = "STAGNANT_STOP" /\ result' = ret.projection_poly
       ELSE IF BasisFull(DropLast(W))
       THEN pc' = "BASIS_FULL" /\ result' = ret.projection_poly
       ELSE pc' = "loop" /\ UNCHANGED result
    /\ UNCHANGED <<args, old_error, tries, depth, found, ret, batches, fails,
                   commits>>

\* the committing branch returning the projection the iteration started with
CommitReturnsStale ==
    /\ pc = "returned"
    /\ ret # None
    /\ ~Stagnated(Difference(old_error, ret.error))
    /\ projection_poly' = ret.projection_poly
    /\ error' = ret.error
    /\ commits' = Count(commits)
    /\ IF BasisFull(W)
       THEN pc' = "BASIS_FULL" /\ result' = projection_poly
       ELSE pc' = "loop" /\ UNCHANGED result
    /\ UNCHANGED <<args, W, fW, Q, old_error, iteration, tries, depth, found, ret,
                   batches, fails, rejects>>

\* loop body after add_vector, branch difference > tol
Commit ==
    /\ pc = "returned"
    /\ ret # None
    /\ ~Stagnated(Difference(old_error, ret.error))
    /\ projection_poly' = ret.projection_poly
    /\ error' = ret.error
    /\ commits' = Count(commits)
    /\ IF BasisFull(W)
       THEN pc' = "BASIS_FULL" /\ result' = ret.projection_poly
       ELSE pc' = "loop" /\ UNCHANGED result
    /\ UNCHANGED <<args, W, fW, Q, old_error, iteration, tries, depth, found, ret,
                   batches, fails, rejects>>

Next ==
    \/ Setup
    \/ LoopTest
    \/ VecFinderAttempt
    \/ AddVectorUnpackFails
    \/ AddVectorSingular
    \/ AddVectorAppend
    \/ GreedyUnpackFails
    \/ Reject
    \/ Commit

Spec == Init /\ [][Next]_vars

\* The interpreter runs the single control thread until it returns or raises.
FairSpec == Spec /\ WF_vars(Next)

TypeOK ==
    /\ pc \in {"INIT", "loop", "vec_finder", "add_vector", "returned"} \cup Terminal \cup Failed
    /\ Len(W) <= NumDirs
    /\ error \in Errs \cup {Inf}
    /\ tries \in 1..(max_tries + 1)
    /\ depth \in 0..(MaxDepth + 1)
    /\ batches \in 0..max_tries /\ fails \in 0..max_tries
    /\ \A c \in {commits, rejects} : c < CounterCap

\* ======================================================================
\* Properties
\* ======================================================================

\* C1: a rejected iteration (|old_error - error| <= tol) removes the last entry
\* of W, fW and Q and leaves both the error and the projection polynomial at
\* the values they had before the iteration.
C1_RejectRestores ==
    [][rejects' # rejects =>
          /\ W' = DropLast(W) /\ fW' = DropLast(fW) /\ Q' = DropLast(Q)
          /\ error' = error
          /\ projection_poly' = projection_poly]_vars

\* C2: once add_vector has met a singular Gram matrix, the call
\* greedy_approximation made still hands back a complete result.
C2_SingularAbsorbed == (pc = "returned" /\ depth > 0) => ret # None

\* C3: vec_finder never comes back to add_vector without a result, in
\* particular not when a later attempt passed the half-norm test.
C3_RetryReturnsResult == pc = "add_vector" => found # None

\* C4: one vec_finder call samples at most 10 batches; the search-exhausted
\* error is raised exactly when 10 attempts failed the half-norm test, and it
\* ends the run with nothing returned.
C4_SearchExhausted ==
    /\ batches <= 10
    /\ pc = "SEARCH_EXHAUSTED" => (batches = 10 /\ fails = 10 /\ result = None
                                     /\ ~ENABLED Next)
    /\ fails >= 10 => pc = "SEARCH_EXHAUSTED"

C4_Witness == pc = "SEARCH_EXHAUSTED" /\ fails = 10 /\ Len(W) >= 1

\* C5: every run leaves the main loop: it reaches CONVERGED, STAGNANT_STOP or
\* BASIS_FULL unless an add_vector call ends without a result (a failure).
C5_Terminates == <>(pc \in Terminal \/ pc \in Failed)

C5_Witness == pc \in Terminal /\ commits >= 2 /\ rejects >= 2

\* C6: when the projection built from the first accepted direction has a
\* residual norm below eps, no second direction is searched for.
C6_OneDirectionConverges ==
    (iters = 2 /\ pc = "vec_finder" /\ error >= eps) => projection_poly.resid >= eps

\* C7: the tracked error never increases from one step of the run to the next.
C7_ErrorNeverIncreases == [][error' <= error]_vars

\* C8: W, fW and Q have the same length, at most max_vec and at most the number
\* of iterations started; the loop is left (BASIS_FULL) as soon as an iteration
\* ends with len(W) >= max_vec.
C8_BasisBound ==
    /\ Len(W) = Len(fW) /\ Len(fW) = Len(Q)
    /\ Len(W) <= max_vec
    /\ Len(W) <= iters
    /\ pc \in {"loop", "vec_finder", "add_vector", "CONVERGED", "STAGNANT_STOP"}
          => Len(W) < max_vec
    /\ pc = "BASIS_FULL" => Len(W) = max_vec

C8_Witness == pc = "BASIS_FULL" /\ Len(W) = 3 /\ rejects >= 1

\* C9 as stated: the stagnation stop happens when, and only when, the number of
\* rejected iterations reaches max_iter.
C9_StopAtMaxIterRejections ==
    /\ pc = "STAGNANT_STOP" => rejects = max_iter
    /\ rejects >= max_iter => pc = "STAGNANT_STOP"

\* C9 amended: the counter starts at 1 and counts rejected iterations only, and
\* the stagnation stop happens when, and only when, a rejection brings it to
\* max_iter or above: at rejection number max(1, max_iter - 1).
C9_StopWhenCounterReachesMaxIter ==
    /\ iteration = 1 + rejects
    /\ pc = "STAGNANT_STOP" =>
          /\ rejects >= 1 /\ iteration >= max_iter
          /\ (rejects = 1 \/ iteration = max_iter)
    /\ (rejects >= 1 /\ iteration >= max_iter) => pc = "STAGNANT_STOP"

C9_Witness == pc = "STAGNANT_STOP" /\ rejects = 2 /\ commits >= 2

\* C10: a run starts at most max_iter iterations of the main loop.
C10_AtMostMaxIterIterations == iters <= max_iter

\* C11: a run that leaves the loop by the stagnation stop or because the basis
\* is full returns the current projection polynomial and raises nothing: it
\* has a result, the result is projection_poly, and the run is over.
C11_StopsReturnProjection ==
    /\ pc \in {"STAGNANT_STOP", "BASIS_FULL"} =>
          /\ result # None
          /\ result = projection_poly
          /\ ~ENABLED Next
    /\ pc \in Failed => result = None

C11_Witness == pc = "BASIS_FULL" /\ result = projection_poly /\ commits = 3

\* C12: with an argument outside its documented range (n < 1, odd degree, inner
\* outside (0, 1)) the call ends in the invalid-input error before anything is
\* sampled or appended.  accu and r enter the model only through max_size and
\* the norms.
C12_InvalidInputFailsFirst ==
    (n < 1 \/ deg % 2 = 1 \/ inner <= 0 \/ inner >= 1000) =>
        /\ pc \in {"INIT", "INVALID_INPUT"}
        /\ W = <<>> /\ found = None

\* C13: any two distinct entries of W have |w_i . w_j| <= inner.
C13_BasisSeparated ==
    \A i, j \in 1..Len(W) : i # j => AbsInner(W[i], W[j]) <= inner

C13_Witness == Len(W) = 2 /\ inner = 600 /\ commits = 2

\* C14: whenever the loop condition is evaluated and at return, the projection
\* polynomial is the combination over exactly the directions in W.
C14_ProjectionOverBasis ==
    pc \in {"loop", "CONVERGED", "STAGNANT_STOP", "BASIS_FULL"} =>
        projection_poly.terms = W

\* C15: every stored fW[i] is the value at W[i] of the input polynomial, that is
\* of poly with nothing subtracted.
C15_StoredValuesOfPoly ==
    \A i \in 1..Len(fW) : fW[i] = [at |-> W[i], minus |-> <<>>]

\* C16: the basis never holds a singular set of directions, and the add_vector
\* step that meets a singular candidate leaves W, fW and Q as they are.
C16_SingularNeverAppended ==
    [][/\ ~Singular(W')
       /\ depth' > depth => (W' = W /\ fW' = fW /\ Q' = Q)]_vars

C16_Witness == pc = "returned" /\ depth > 0 /\ Len(W) >= 2 /\ ~Singular(W)

\* C17: what vec_finder returns is a survivor of the filter holding the largest
\* absolute value of its batch, with fv the value at v of poly minus the
\* projection passed in, lrnorm the norm of that difference, and
\* 0.5*lrnorm <= |fv|.
C17_ReturnedIsHalfNormArgmax ==
    (pc = "add_vector" /\ found # None) =>
        /\ W = <<>> \/ Survives(found.v, W, inner)
        /\ found.abs_at_v = found.abs_fv
        /\ found.fv = [at |-> found.v, minus |-> projection_poly.terms]
        /\ found.lrnorm = ResidualNorm(projection_poly)
        /\ found.lrnorm <= 2 * found.abs_at_v
        /\ found.q = found.v

C17_Witness ==
    /\ pc = "add_vector" /\ found # None
    /\ Len(W) >= 1 /\ found.lrnorm = 2 /\ found.abs_at_v = 1

\* C18: a batch the filter empties counts as a failed attempt; the only error
\* a vec_finder call ends a run with is the search-exhausted one.
C18_EmptyBatchRetried ==
    /\ pc # "VALUE_ERROR"
    /\ batches = fails

====
